---- MODULE Spec2Model ----
(***************************************************************************)
(* Board state of the DynamicKanbanBoard component (src/app/page.tsx):     *)
(* the React state cells, the two mount effects (fetch, ingestion) and the *)
(* event handlers handleDragEnd, addNewColumn, deleteColumn and the        *)
(* add-column form handlers.                                               *)
(***************************************************************************)
EXTENDS Integers, Sequences, FiniteSets, TLC

(* ---------------------------------------------------------------- bounds *)
MaxPayloadCols == 2      \* longest statuses list a payload carries
MaxPayloadItems == 2     \* longest features list a payload carries
MaxColumns == 2          \* addNewColumn is not explored beyond this many columns
MaxNow == 2              \* Date.now() returns a value in 1..MaxNow
MaxNameLen == 2          \* longest text typed into the column-name input
MaxDraw == 1             \* getRandomColor draws one of the first MaxDraw palette entries

(* ------------------------------------------------------------ value sets *)
\* JavaScript undefined / null
Undefined == [undefined |-> TRUE]

\* characters a column name is made of; " " is whitespace
Chars == {" ", "a"}

RECURSIVE SeqsUpTo(_, _)
SeqsUpTo(S, n) ==
    IF n = 0 THEN {<<>>}
    ELSE LET shorter == SeqsUpTo(S, n - 1)
         IN  shorter \cup {Append(s, x) : s \in {t \in shorter : Len(t) = n - 1}, x \in S}

\* every value e.target.value can take
Texts == SeqsUpTo(Chars, MaxNameLen)

\* ids a payload uses for its statuses and for the statusId of its features
PayloadIds == {"c1", "1"}

\* IKanbanDetails.statuses entries (lines 86-90): two share an id, two a name
RawStatuses ==
    {[id |-> "c1", name |-> <<"a">>, color |-> "#000000"],
     [id |-> "1", name |-> <<"a">>, color |-> "#000000"],
     [id |-> "1", name |-> <<"b">>, color |-> "#000000"]}

\* id of the k-th feature of a payload
FeatureId(k) == "i" \o ToString(k)

\* the date text of the k-th feature of a payload: the second is no date
StartText(k) == IF k = 2 THEN "soon" ELSE "2024-01-01"

\* the IKanbanDetails.features entry (lines 66-85) at position k of a payload,
\* with statusId ref; everything but statusId is fixed by the position
RawFeature(k, ref) ==
    [id |-> FeatureId(k),
     name |-> "task" \o ToString(k),
     startAt |-> StartText(k),
     endAt |-> "2024-01-05",
     statusId |-> ref,
     owner |-> [id |-> "u" \o ToString(k), name |-> "owner", image |-> ""],
     initiative |-> [id |-> "n1", name |-> "initiative"],
     release |-> [id |-> "r1", name |-> "release"]]

\* IKanbanDetails.features lists (lines 66-85)
RawFeatureLists ==
    UNION {{[k \in 1..n |-> RawFeature(k, ref[k])] :
              ref \in [1..n -> PayloadIds]} : n \in 0..MaxPayloadItems}

\* a parsed JSON body: either null, or an object whose features and statuses
\* members are each a list or missing
JsonNull == [isNull |-> TRUE]

Payloads ==
    [hasFeatures : {TRUE}, features : RawFeatureLists,
     hasStatuses : {TRUE}, statuses : SeqsUpTo(RawStatuses, MaxPayloadCols)]
    \cup [hasFeatures : {FALSE}, features : {<<>>},
          hasStatuses : {TRUE}, statuses : SeqsUpTo(RawStatuses, MaxPayloadCols)]
    \cup [hasFeatures : {TRUE}, features : RawFeatureLists,
          hasStatuses : {FALSE}, statuses : {<<>>}]
    \cup [hasFeatures : {FALSE}, features : {<<>>},
          hasStatuses : {FALSE}, statuses : {<<>>}]

\* what the network call of fetchData can produce
Responses ==
    {[kind |-> "networkError"], [kind |-> "httpError"], [kind |-> "badJson"],
     [kind |-> "json", data |-> JsonNull]}
    \cup {[kind |-> "json", data |-> p] : p \in Payloads}

(* -------------------------------------------------------- pure functions *)
\* fetchData: null on any failure, else the parsed body
fetchData(resp) ==
    IF resp.kind = "json" THEN resp.data ELSE Undefined

\* JavaScript truthiness of what fetchData returns
Truthy(data) == data # Undefined /\ data # JsonNull

\* the palette of getRandomColor
colors == <<
    [bg |-> "#EF4444", light |-> "#FEF2F2", text |-> "#991B1B"],
    [bg |-> "#F97316", light |-> "#FFF7ED", text |-> "#9A3412"],
    [bg |-> "#EAB308", light |-> "#FEFCE8", text |-> "#854D0E"],
    [bg |-> "#22C55E", light |-> "#F0FDF4", text |-> "#166534"],
    [bg |-> "#06B6D4", light |-> "#F0F9FF", text |-> "#0C4A6E"],
    [bg |-> "#8B5CF6", light |-> "#FAF5FF", text |-> "#581C87"],
    [bg |-> "#EC4899", light |-> "#FDF2F8", text |-> "#9D174D"] >>

\* String.prototype.trim on a text: drop leading and trailing whitespace
RECURSIVE TrimStart(_)
TrimStart(s) ==
    IF s # <<>> /\ Head(s) = " " THEN TrimStart(Tail(s)) ELSE s

RECURSIVE TrimEnd(_)
TrimEnd(s) ==
    IF s # <<>> /\ s[Len(s)] = " " THEN TrimEnd(SubSeq(s, 1, Len(s) - 1)) ELSE s

\* Trim that drops nothing
TrimNone(s) == s

Trim(s) == TrimEnd(TrimStart(s))

\* Array.prototype.find: the first element that satisfies Test, else undefined
FindFirst(s, Test(_)) ==
    LET hits == {k \in 1..Len(s) : Test(s[k])}
    IN  IF hits = {} THEN Undefined
        ELSE s[CHOOSE k \in hits : \A j \in hits : k <= j]

\* the cards rendered in the lane of the column with this id
itemsIn(fts, columnId) ==
    LET InLane(f) == f.status.id = columnId
    IN  SelectSeq(fts, InLane)

\* rendering the board reads feature.status.id of every feature once per
\* lane; it throws when a feature has no status and there is a lane
RenderThrows(sts, fts, ld) ==
    /\ ~ld
    /\ sts # <<>>
    /\ \E k \in 1..Len(fts) : fts[k].status = Undefined

(* ----------------------------------------------------------------- state *)
VARIABLES
    statuses,         \* useState<IStatus[]>([])
    features,         \* useState<IFeature[]>([])
    newColumnName,    \* useState("")
    isAddingColumn,   \* useState(false)
    kanbanDetails,    \* useState<IKanbanDetails>()
    loading,          \* useState(true)
    effectPending,    \* the ingestion effect is scheduled (kanbanDetails changed)
    crashed,          \* an effect or a render threw: the component is unmounted
    response,         \* what the network answered, Undefined while in flight
    last              \* the handler that ran last, with its inputs

vars == <<statuses, features, newColumnName, isAddingColumn, kanbanDetails,
          loading, effectPending, crashed, response, last>>

board == <<statuses, features>>

\* state after the first render and the first run of both effects: the fetch
\* is in flight and the ingestion effect returned at line 164
Init ==
    /\ statuses = <<>>
    /\ features = <<>>
    /\ newColumnName = <<>>
    /\ isAddingColumn = FALSE
    /\ kanbanDetails = Undefined
    /\ loading = TRUE
    /\ effectPending = FALSE
    /\ crashed = FALSE
    /\ response = Undefined
    /\ last = [op |-> "mount"]

\* Interactive of a board that is rendered while the fetch is in flight
InteractiveAlways == ~crashed /\ ~effectPending

\* the board is rendered (not the skeleton) and every scheduled effect has run
Interactive == ~loading /\ ~crashed /\ ~effectPending

(* --------------------------------------------------------------- effects *)
\* FetchResolved of a fetch effect that runs again after the first has resolved
FetchResolvedLate(resp) ==
    /\ ~crashed
    /\ LET data == fetchData(resp)
       IN  /\ kanbanDetails' = IF Truthy(data) THEN data ELSE kanbanDetails
           /\ effectPending' = Truthy(data)
    /\ loading' = FALSE
    /\ response' = resp
    /\ last' = [op |-> "fetch"]
    /\ UNCHANGED <<statuses, features, newColumnName, isAddingColumn, crashed>>

\* the .then callback of the fetch effect (lines 151-156)
FetchResolved(resp) ==
    /\ loading
    /\ ~crashed
    /\ LET data == fetchData(resp)
       IN  /\ kanbanDetails' = IF Truthy(data) THEN data ELSE kanbanDetails
           /\ effectPending' = Truthy(data)
    /\ loading' = FALSE
    /\ response' = resp
    /\ last' = [op |-> "fetch"]
    /\ UNCHANGED <<statuses, features, newColumnName, isAddingColumn, crashed>>

\* resolveStatus that falls back to the last column
resolveStatusLast(sts, statusId) ==
    LET SameId(s) == s.id = statusId
        found == FindFirst(sts, SameId)
    IN  IF found # Undefined THEN found
        ELSE IF sts # <<>> THEN sts[Len(sts)] ELSE Undefined

\* the status the ingestion gives a raw feature (line 170)
resolveStatus(sts, statusId) ==
    LET SameId(s) == s.id = statusId
        found == FindFirst(sts, SameId)
    IN  IF found # Undefined THEN found
        ELSE IF sts # <<>> THEN sts[1] ELSE Undefined

\* new Date(text) (lines 168-169): the instant the text denotes, or the
\* Invalid Date when the text is no date
newDate(text) ==
    IF text = "2024-01-01" THEN [iso |-> "2024-01-01T00:00:00.000Z"]
    ELSE IF text = "2024-01-05" THEN [iso |-> "2024-01-05T00:00:00.000Z"]
    ELSE [iso |-> "Invalid Date"]

\* kanbanDetails.features?.map(...) (lines 166-171) when statuses is a list:
\* the spread keeps every member, then startAt, endAt and status are set
processFeatures(raw, sts) ==
    [k \in 1..Len(raw) |->
        [id |-> raw[k].id,
         name |-> raw[k].name,
         startAt |-> newDate(raw[k].startAt),
         endAt |-> newDate(raw[k].endAt),
         statusId |-> raw[k].statusId,
         status |-> resolveStatus(sts, raw[k].statusId),
         owner |-> raw[k].owner,
         initiative |-> raw[k].initiative,
         release |-> raw[k].release]]

\* IngestionThrows of an ingestion that reads statuses[0].id before the map
IngestionThrowsEager(details) ==
    details.hasFeatures /\ (~details.hasStatuses \/ details.statuses = <<>>)

\* line 170 reads kanbanDetails.statuses[0] of a missing statuses member
IngestionThrows(details) ==
    details.hasFeatures /\ details.features # <<>> /\ ~details.hasStatuses

\* the ingestion effect re-run after kanbanDetails changed (lines 163-175)
Ingest ==
    /\ effectPending
    /\ ~crashed
    /\ effectPending' = FALSE
    /\ IF IngestionThrows(kanbanDetails)
       THEN /\ crashed' = TRUE
            /\ UNCHANGED board
       ELSE /\ statuses' = IF kanbanDetails.hasStatuses
                           THEN kanbanDetails.statuses ELSE <<>>
            /\ features' = IF kanbanDetails.hasFeatures
                           THEN processFeatures(kanbanDetails.features,
                                                kanbanDetails.statuses)
                           ELSE <<>>
            /\ crashed' = RenderThrows(statuses', features', loading)
    /\ last' = [op |-> "ingest"]
    /\ UNCHANGED <<newColumnName, isAddingColumn, kanbanDetails, loading, response>>

(* -------------------------------------------------------------- handlers *)
\* the drop targets the drag collaborator can report: none, the lane of a
\* column (whose droppable id is the column's name, line 311), or an id that
\* is no lane's
DropTargets ==
    {Undefined}
    \cup {[id |-> statuses[j].name, lane |-> j] : j \in 1..Len(statuses)}
    \cup {[id |-> <<"?">>, lane |-> 0]}

\* ids the drag collaborator can report as the dragged card
ActiveIds == {features[k].id : k \in 1..Len(features)} \cup {"i9"}

\* dropStatus with the ingestion's fallback to the first column
dropStatusOrFirst(sts, over) ==
    LET SameName(s) == s.name = over.id
        found == FindFirst(sts, SameName)
    IN  IF over = Undefined THEN Undefined
        ELSE IF found # Undefined THEN found
        ELSE IF sts # <<>> THEN sts[1] ELSE Undefined

\* the column handleDragEnd resolves the drop target to (line 190)
dropStatus(sts, over) ==
    LET SameName(s) == s.name = over.id
    IN  IF over = Undefined THEN Undefined ELSE FindFirst(sts, SameName)

\* moveFeature that replaces the snapshot and leaves the foreign key
moveFeatureStale(fts, activeId, status) ==
    [k \in 1..Len(fts) |->
        IF fts[k].id = activeId
        THEN [fts[k] EXCEPT !.status = status]
        ELSE fts[k]]

\* moveFeature that moves the first card when no card has the id
moveFeatureOrFirst(fts, activeId, status) ==
    [k \in 1..Len(fts) |->
        IF \/ fts[k].id = activeId
           \/ (k = 1 /\ \A i \in 1..Len(fts) : fts[i].id # activeId)
        THEN [fts[k] EXCEPT !.status = status, !.statusId = status.id]
        ELSE fts[k]]

\* moveFeature without the test of the card id: every card is moved
moveFeatureAll(fts, activeId, status) ==
    [k \in 1..Len(fts) |->
        [fts[k] EXCEPT !.status = status, !.statusId = status.id]]

\* moveFeature that keeps the dragged card alone
moveFeatureOnly(fts, activeId, status) ==
    LET Moved(f) == f.id = activeId
        moved == SelectSeq(fts, Moved)
    IN  [k \in 1..Len(moved) |->
           [moved[k] EXCEPT !.status = status, !.statusId = status.id]]

\* moveFeature that takes the card out of the list and puts it last
moveFeatureToEnd(fts, activeId, status) ==
    LET Other(f) == f.id # activeId
        Moved(f) == f.id = activeId
        moved == SelectSeq(fts, Moved)
    IN  SelectSeq(fts, Other)
        \o [k \in 1..Len(moved) |->
               [moved[k] EXCEPT !.status = status, !.statusId = status.id]]

\* the features list handleDragEnd installs (lines 197-204)
moveFeature(fts, activeId, status) ==
    [k \in 1..Len(fts) |->
        IF fts[k].id = activeId
        THEN [fts[k] EXCEPT !.status = status, !.statusId = status.id]
        ELSE fts[k]]

\* handleDragEnd (lines 181-205)
handleDragEnd(activeId, over) ==
    /\ Interactive
    /\ LET status == dropStatus(statuses, over)
       IN  /\ features' = IF status = Undefined THEN features
                          ELSE moveFeature(features, activeId, status)
           /\ last' = [op |-> "handleDragEnd",
                       outcome |-> IF over = Undefined THEN "noOver"
                                   ELSE IF status = Undefined THEN "noStatus"
                                   ELSE "set"]
    /\ crashed' = RenderThrows(statuses, features', loading)
    /\ UNCHANGED <<statuses, newColumnName, isAddingColumn, kanbanDetails,
                   loading, effectPending, response>>

\* the record addNewColumn builds (lines 216-223)
newStatus(now, c, text) ==
    [id |-> ToString(now), name |-> Trim(text), color |-> colors[c].bg,
     lightColor |-> colors[c].light, textColor |-> colors[c].text]

\* appendStatus that puts the new column first
prependStatus(sts, st) == <<st>> \o sts

\* [...statuses, newStatus] (line 226)
appendStatus(sts, st) == Append(sts, st)

\* addNewColumn (lines 211-229); now is Date.now(), c the palette entry drawn
addNewColumn(now, c) ==
    IF Trim(newColumnName) = <<>>
    THEN /\ last' = [op |-> "addNewColumn", added |-> FALSE]
         /\ UNCHANGED <<statuses, features, newColumnName, isAddingColumn,
                        kanbanDetails, loading, effectPending, crashed, response>>
    ELSE /\ Len(statuses) < MaxColumns
         /\ statuses' = appendStatus(statuses, newStatus(now, c, newColumnName))
         /\ newColumnName' = <<>>
         /\ isAddingColumn' = FALSE
         /\ crashed' = RenderThrows(statuses', features, loading)
         /\ last' = [op |-> "addNewColumn", added |-> TRUE]
         /\ UNCHANGED <<features, kanbanDetails, loading, effectPending, response>>

\* the "Add Column" submit button (line 463)
ClickAdd(now, c) ==
    /\ Interactive
    /\ isAddingColumn
    /\ addNewColumn(now, c)

\* the cancel button (lines 469-472) and the Escape branch (lines 257-260)
cancelAdd ==
    /\ isAddingColumn' = FALSE
    /\ newColumnName' = <<>>
    /\ last' = [op |-> "form"]
    /\ UNCHANGED <<statuses, features, kanbanDetails, loading, effectPending,
                   crashed, response>>

ClickCancel ==
    /\ Interactive
    /\ isAddingColumn
    /\ cancelAdd

\* handleKeyPress (lines 254-261)
handleKeyPress(key, now, c) ==
    /\ Interactive
    /\ isAddingColumn
    /\ IF key = "Enter" THEN addNewColumn(now, c)
       ELSE IF key = "Escape" THEN cancelAdd
       ELSE /\ last' = [op |-> "form"]
            /\ UNCHANGED <<statuses, features, newColumnName, isAddingColumn,
                           kanbanDetails, loading, effectPending, crashed, response>>

\* onChange of the name input (line 450)
ChangeName(text) ==
    /\ Interactive
    /\ isAddingColumn
    /\ newColumnName' = text
    /\ last' = [op |-> "form"]
    /\ UNCHANGED <<statuses, features, isAddingColumn, kanbanDetails, loading,
                   effectPending, crashed, response>>

\* onBlur of the name input (lines 452-456)
Blur ==
    /\ Interactive
    /\ isAddingColumn
    /\ isAddingColumn' = (Trim(newColumnName) # <<>>)
    /\ last' = [op |-> "form"]
    /\ UNCHANGED <<statuses, features, newColumnName, kanbanDetails, loading,
                   effectPending, crashed, response>>

\* the dashed "Add Column" button (line 482); rendering its state change
\* runs a scheduled ingestion effect, so it is clickable before Ingest
OpenAddColumn ==
    /\ ~loading
    /\ ~crashed
    /\ ~isAddingColumn
    /\ isAddingColumn' = TRUE
    /\ last' = [op |-> "form"]
    /\ UNCHANGED <<statuses, features, newColumnName, kanbanDetails, loading,
                   effectPending, crashed, response>>

\* ids deleteColumn can be called with: a lane's delete button passes the
\* lane's column id (line 325); "c9" is an id of no column
DeleteIds == {statuses[j].id : j \in 1..Len(statuses)} \cup {"c9"}

\* features.some(...) of line 238 reads status.id of a feature without status
\* before it finds a feature of the column
someThrows(fts, statusId) ==
    \E k \in 1..Len(fts) :
        /\ fts[k].status = Undefined
        /\ \A j \in 1..(k - 1) : fts[j].status.id # statusId

\* hasFeatures testing the foreign key instead of the snapshot
hasFeaturesByKey(fts, statusId) ==
    \E k \in 1..Len(fts) : fts[k].status # Undefined /\ fts[k].statusId = statusId

\* features.some(...) of line 238, when it does not throw
hasFeatures(fts, statusId) ==
    \E k \in 1..Len(fts) : fts[k].status # Undefined /\ fts[k].status.id = statusId

\* statuses.filter(...) of line 245
withoutStatus(sts, statusId) ==
    LET Other(s) == s.id # statusId
    IN  SelectSeq(sts, Other)

\* deleteColumn (lines 236-246)
deleteColumn(statusId) ==
    /\ Interactive
    /\ IF someThrows(features, statusId)
       THEN /\ last' = [op |-> "deleteColumn", statusId |-> statusId,
                        outcome |-> "threw"]
            /\ UNCHANGED statuses
       ELSE IF hasFeatures(features, statusId)
       THEN /\ last' = [op |-> "deleteColumn", statusId |-> statusId,
                        outcome |-> "alert"]
            /\ UNCHANGED statuses
       ELSE /\ last' = [op |-> "deleteColumn", statusId |-> statusId,
                        outcome |-> "filtered"]
            /\ statuses' = withoutStatus(statuses, statusId)
    /\ crashed' = RenderThrows(statuses', features, loading)
    /\ UNCHANGED <<features, newColumnName, isAddingColumn, kanbanDetails,
                   loading, effectPending, response>>

(* --------------------------------------------------------- specification *)
Keys == {"Enter", "Escape", "a"}

\* Math.floor(Math.random() * colors.length) + 1, within the explored draws
Draws == {c \in 1..Len(colors) : c <= MaxDraw}

Next ==
    \/ \E resp \in Responses : FetchResolved(resp)
    \/ Ingest
    \/ \E a \in ActiveIds, o \in DropTargets : handleDragEnd(a, o)
    \/ \E now \in 1..MaxNow, c \in Draws : ClickAdd(now, c)
    \/ \E key \in Keys, now \in 1..MaxNow, c \in Draws :
          handleKeyPress(key, now, c)
    \/ ClickCancel
    \/ \E text \in Texts : ChangeName(text)
    \/ Blur
    \/ OpenAddColumn
    \/ \E id \in DeleteIds : deleteColumn(id)

Spec == Init /\ [][Next]_vars

\* the two effects alone: the board from mount to the end of the ingestion
NextIngest ==
    \/ \E resp \in Responses : FetchResolved(resp)
    \/ Ingest

SpecIngest == Init /\ [][NextIngest]_vars

(* ---------------------------------------------------------------- claims *)
\* a text with no character other than whitespace
Blank(text) == \A i \in 1..Len(text) : text[i] = " "

\* every feature carries a status record
AllAssigned(fts) == \A k \in 1..Len(fts) : fts[k].status # Undefined

\* the ids of a list of columns are pairwise distinct
UniqueIds(sts) == \A i, j \in 1..Len(sts) : sts[i].id = sts[j].id => i = j

\* a step that runs addNewColumn, from the button or from the Enter key
AddStep == \E now \in 1..MaxNow, c \in Draws :
               ClickAdd(now, c) \/ handleKeyPress("Enter", now, c)

\* C1: in every reachable state every feature that carries a status has
\* status.id equal to its statusId.
C1_SnapshotMatchesKey ==
    \A k \in 1..Len(features) :
        features[k].status # Undefined
            => features[k].status.id = features[k].statusId

\* C2: a handleDragEnd whose drop target is absent or names no column of the
\* board leaves the column list and the feature list as they were.
C2_UnresolvedDropUnchanged ==
    [][\A a \in ActiveIds, o \in DropTargets :
          (/\ last'.op = "handleDragEnd"
           /\ handleDragEnd(a, o)
           /\ \/ o = Undefined
              \/ \A j \in 1..Len(statuses) : statuses[j].name # o.id)
          => UNCHANGED board]_vars

C2_Witness ==
    /\ last.op = "handleDragEnd"
    /\ last.outcome = "noStatus"
    /\ statuses # <<>>
    /\ features # <<>>

\* C3: a deleteColumn on a column that has at least one feature in its lane
\* leaves the column list and the feature list as they were.
C3_OccupiedColumnKept ==
    [][\A id \in DeleteIds :
          (/\ last'.op = "deleteColumn"
           /\ deleteColumn(id)
           /\ AllAssigned(features)
           /\ itemsIn(features, id) # <<>>)
          => UNCHANGED board]_vars

C3_Witness ==
    /\ last.op = "deleteColumn"
    /\ last.outcome = "alert"
    /\ \E j \in 1..Len(statuses) : statuses[j].id = last.statusId
    /\ itemsIn(features, last.statusId) # <<>>

\* C4: after a deleteColumn that got past the occupancy check, no column has
\* the removed id, the other columns are there in their previous order, and
\* no feature has statusId or status.id equal to the removed id.
C4_RemovedColumnGone ==
    [][\A id \in DeleteIds :
          (/\ last'.op = "deleteColumn"
           /\ last'.outcome = "filtered"
           /\ deleteColumn(id))
          => /\ \A j \in 1..Len(statuses') : statuses'[j].id # id
             /\ LET Other(st) == st.id # id
                IN  statuses' = SelectSeq(statuses, Other)
             /\ \A k \in 1..Len(features') :
                   /\ features'[k].statusId # id
                   /\ features'[k].status # Undefined => features'[k].status.id # id]_vars

\* C5: after a handleDragEnd of a card of the board onto a target that resolves
\* to a column, the card has that column's id as statusId, is in the lane of
\* that id and in the lane of no other id.
C5_MovedToTarget ==
    [][\A a \in ActiveIds, o \in DropTargets :
          (/\ last'.op = "handleDragEnd"
           /\ handleDragEnd(a, o)
           /\ \E k \in 1..Len(features) : features[k].id = a
           /\ dropStatus(statuses, o) # Undefined)
          => LET target == dropStatus(statuses, o)
             IN  \A k \in 1..Len(features') :
                    features'[k].id = a =>
                       /\ features'[k].statusId = target.id
                       /\ \E n \in 1..Len(itemsIn(features', target.id)) :
                             itemsIn(features', target.id)[n] = features'[k]
                       /\ \A j \in 1..Len(statuses') :
                             statuses'[j].id # target.id =>
                                \A n \in 1..Len(itemsIn(features', statuses'[j].id)) :
                                   itemsIn(features', statuses'[j].id)[n].id # a]_vars

C5_Witness ==
    /\ last.op = "handleDragEnd"
    /\ last.outcome = "set"
    /\ Len(statuses) = 2
    /\ statuses[1].id # statuses[2].id
    /\ \E k \in 1..Len(features) :
          /\ features[k].status = statuses[2]
          /\ kanbanDetails.features[k].statusId = statuses[1].id

\* C6: when the ingested column ids are pairwise distinct, the column ids of
\* the board are pairwise distinct in every reachable state.
C6_ColumnIdsUnique ==
    (kanbanDetails # Undefined => UniqueIds(kanbanDetails.statuses))
        => UniqueIds(statuses)

\* C7: addNewColumn with an empty or all-whitespace name leaves the column
\* list and the feature list as they were.
C7_BlankNameUnchanged ==
    [][(last'.op = "addNewColumn" /\ AddStep /\ Blank(newColumnName))
          => UNCHANGED board]_vars

C7_Witness ==
    /\ last = [op |-> "addNewColumn", added |-> FALSE]
    /\ newColumnName # <<>>
    /\ Blank(newColumnName)

\* C8: addNewColumn with a name that has a non-whitespace character appends
\* one column: the previous columns are the prefix of the new list, and the
\* feature list is as it was.
C8_NamedColumnAppended ==
    [][(last'.op = "addNewColumn" /\ AddStep /\ ~Blank(newColumnName))
          => /\ Len(statuses') = Len(statuses) + 1
             /\ SubSeq(statuses', 1, Len(statuses)) = statuses
             /\ UNCHANGED features]_vars

C8_Witness ==
    /\ last = [op |-> "addNewColumn", added |-> TRUE]
    /\ Len(statuses) = 2
    /\ kanbanDetails # Undefined
    /\ kanbanDetails.statuses # <<>>
    /\ statuses[1] = kanbanDetails.statuses[1]
    /\ features # <<>>

\* C9: right after the ingestion of a payload with a non-empty statuses list,
\* every feature has a status, and a feature whose statusId is no column's id
\* has the first column of the payload as its status.
C9_DanglingGetsFirstColumn ==
    (/\ last.op = "ingest"
     /\ kanbanDetails.hasStatuses
     /\ kanbanDetails.statuses # <<>>)
    => /\ ~crashed
       /\ Len(features) = Len(kanbanDetails.features)
       /\ \A k \in 1..Len(features) :
             /\ features[k].status # Undefined
             /\ (\A j \in 1..Len(kanbanDetails.statuses) :
                    kanbanDetails.statuses[j].id # kanbanDetails.features[k].statusId)
                => /\ features[k].status = kanbanDetails.statuses[1]
                   /\ \E n \in 1..Len(itemsIn(features, kanbanDetails.statuses[1].id)) :
                         itemsIn(features, kanbanDetails.statuses[1].id)[n] = features[k]

C9_Witness ==
    /\ last.op = "ingest"
    /\ Len(kanbanDetails.statuses) = 2
    /\ \E k \in 1..Len(features) :
          /\ \A j \in 1..2 : kanbanDetails.statuses[j].id # features[k].statusId
          /\ features[k].status = statuses[1]

\* the fetch failed, the body was null, or the body has no statuses list
FailedOrMalformed ==
    \/ response.kind # "json"
    \/ response.data = JsonNull
    \/ ~response.data.hasStatuses

\* C10: once the fetch has resolved with a failure, a null body or a body
\* without a statuses list, and the ingestion it scheduled has run, no
\* exception was raised, the board is not loading and has no column and no
\* feature.
C10_FailureGivesEmptyBoard ==
    (/\ last.op \in {"fetch", "ingest"}
     /\ ~effectPending
     /\ FailedOrMalformed)
    => /\ ~crashed
       /\ ~loading
       /\ statuses = <<>>
       /\ features = <<>>

\* the well-formed payload with no feature and no column
EmptyPayload ==
    [hasFeatures |-> TRUE, features |-> <<>>, hasStatuses |-> TRUE, statuses |-> <<>>]

\* C11: once the body {features: [], statuses: []} has been fetched and the
\* ingestion it scheduled has run, nothing was thrown, the board is not
\* loading and has no column and no feature.
C11_EmptyPayloadGivesEmptyBoard ==
    (/\ response = [kind |-> "json", data |-> EmptyPayload]
     /\ ~effectPending)
    => /\ ~crashed
       /\ ~loading
       /\ statuses = <<>>
       /\ features = <<>>

C11_Witness ==
    /\ last.op = "ingest"
    /\ kanbanDetails = EmptyPayload
    /\ ~loading
    /\ ~crashed

\* C12: once a payload with an empty statuses list and a non-empty features
\* list has been ingested, every feature carries a status and nothing has
\* thrown.
C12_EmptyColumnListAssigned ==
    (/\ kanbanDetails # Undefined
     /\ ~effectPending
     /\ kanbanDetails.hasStatuses
     /\ kanbanDetails.statuses = <<>>
     /\ kanbanDetails.hasFeatures
     /\ kanbanDetails.features # <<>>)
    => /\ ~crashed
       /\ Len(features) = Len(kanbanDetails.features)
       /\ AllAssigned(features)

\* C13: a deleteColumn with an id of no column leaves the board as it was and
\* ends with an outcome of its own, not the outcome of a removal.
C13_UnknownIdReported ==
    [][\A id \in DeleteIds :
          (/\ last'.op = "deleteColumn"
           /\ deleteColumn(id)
           /\ \A j \in 1..Len(statuses) : statuses[j].id # id)
          => /\ UNCHANGED board
             /\ last'.outcome \notin {"filtered", "alert"}]_vars

\* the ids of a list of features, in order
IdsOf(fts) == [k \in 1..Len(fts) |-> fts[k].id]

\* a handleDragEnd step of card a onto target o that resolves to a column
\* while a is a card of the board
MoveStep(a, o) ==
    /\ last'.op = "handleDragEnd"
    /\ handleDragEnd(a, o)
    /\ \E k \in 1..Len(features) : features[k].id = a
    /\ dropStatus(statuses, o) # Undefined

\* C14 as claimed: a card moved into a column it was not in is the last card
\* of that column's lane, after the cards that were there.
C14_MovedCardLast ==
    [][last'.op = "handleDragEnd" =>
       (\A a \in ActiveIds, o \in DropTargets :
          (/\ MoveStep(a, o)
           /\ \A k \in 1..Len(features) :
                 features[k].id = a
                    => features[k].status.id # dropStatus(statuses, o).id)
          => IdsOf(itemsIn(features', dropStatus(statuses, o).id))
                = Append(IdsOf(itemsIn(features, dropStatus(statuses, o).id)), a))]_vars

\* C14 as amended: a move keeps the order of the feature list, so the lane of
\* the target column shows the cards that were there, in their order, with
\* the moved card at the place its position in the feature list gives it.
C14_LaneKeepsListOrder ==
    [][last'.op = "handleDragEnd" =>
       (\A a \in ActiveIds, o \in DropTargets :
          MoveStep(a, o)
          => LET target == dropStatus(statuses, o)
                 there == {itemsIn(features, target.id)[n].id :
                              n \in 1..Len(itemsIn(features, target.id))}
                 InLaneNow(f) == f.id = a \/ f.id \in there
             IN  /\ IdsOf(features') = IdsOf(features)
                 /\ IdsOf(itemsIn(features', target.id))
                       = IdsOf(SelectSeq(features, InLaneNow)))]_vars

C14_Witness ==
    /\ last.op = "handleDragEnd"
    /\ last.outcome = "set"
    /\ Len(features) = 2
    /\ features[1].status.id = features[2].status.id
    /\ features[1].status.id # resolveStatus(kanbanDetails.statuses,
                                             kanbanDetails.features[1].statusId).id
    /\ features[2].status = resolveStatus(kanbanDetails.statuses,
                                          kanbanDetails.features[2].statusId)
    /\ IdsOf(itemsIn(features, features[2].status.id)) = <<"i1", "i2">>

\* the feature list the ingestion installed: empty when no body was taken,
\* when the body has no features list or when the ingestion threw
Ingested ==
    IF kanbanDetails = Undefined THEN <<>>
    ELSE IF ~kanbanDetails.hasFeatures \/ IngestionThrows(kanbanDetails) THEN <<>>
    ELSE processFeatures(kanbanDetails.features, kanbanDetails.statuses)

\* C15: once the ingestion has run, the feature list has the ingested ids in
\* the ingested order, and every feature has its ingested name, startAt,
\* endAt, owner, initiative and release.
C15_ItemsKeepContent ==
    ~effectPending
    => /\ IdsOf(features) = IdsOf(Ingested)
       /\ \A k \in 1..Len(features) :
             /\ features[k].name = Ingested[k].name
             /\ features[k].startAt = Ingested[k].startAt
             /\ features[k].endAt = Ingested[k].endAt
             /\ features[k].owner = Ingested[k].owner
             /\ features[k].initiative = Ingested[k].initiative
             /\ features[k].release = Ingested[k].release

C15_Witness ==
    /\ last.op = "deleteColumn"
    /\ last.outcome = "filtered"
    /\ Len(features) = 2
    /\ \E k \in 1..2 : features[k].status # Ingested[k].status
    /\ \E j \in 1..Len(statuses) : statuses[j] \notin RawStatuses
    /\ features[2].startAt = [iso |-> "Invalid Date"]

\* the handlers that change the board
Mutations == {"handleDragEnd", "addNewColumn", "deleteColumn"}

\* C16: no step taken while loading runs handleDragEnd, addNewColumn or
\* deleteColumn; a step that runs one of them starts from a board that is not
\* loading and whose fetch has resolved; and the step that resolves the fetch
\* ends loading.
C16_NoMutationWhileLoading ==
    [][/\ loading => last'.op \notin Mutations
       /\ last'.op \in Mutations => (~loading /\ response # Undefined)
       /\ last'.op = "fetch" => ~loading']_vars

C16_Witness ==
    /\ last = [op |-> "addNewColumn", added |-> TRUE]
    /\ response.kind = "networkError"
    /\ ~loading
    /\ statuses # <<>>

\* the lanes whose column has the id of the status of feature f
LanesOf(f) == {j \in 1..Len(statuses) : statuses[j].id = f.status.id}

\* C17: on a board ingested from a non-empty statuses list (whose ids are
\* pairwise distinct), every feature has a status and is in the lane of
\* exactly one column of the column list.
C17_ExactlyOneLane ==
    (/\ kanbanDetails # Undefined
     /\ ~effectPending
     /\ ~crashed
     /\ kanbanDetails.hasStatuses
     /\ kanbanDetails.statuses # <<>>
     /\ UniqueIds(kanbanDetails.statuses))
    => \A k \in 1..Len(features) :
          /\ features[k].status # Undefined
          /\ Cardinality(LanesOf(features[k])) = 1

\* C19: a card of the board dropped on the lane of a column has that
\* column's id as statusId and as status.id afterwards.
C19_DroppedOnLaneGetsThatColumn ==
    [][last'.op = "handleDragEnd" =>
       (\A a \in ActiveIds, o \in DropTargets :
          (/\ last'.op = "handleDragEnd"
           /\ handleDragEnd(a, o)
           /\ o # Undefined
           /\ o.lane >= 1)
          => \A k \in 1..Len(features') :
                features'[k].id = a
                   => /\ features'[k].statusId = statuses[o.lane].id
                      /\ features'[k].status.id = statuses[o.lane].id)]_vars

\* C20: a handleDragEnd of a card of the board that resolves to a column
\* leaves the column list as it was, gives the card the resolved column's
\* record as status and its id as statusId in the same step, the record being
\* an entry of the column list, changes no other member of the card, and
\* leaves every other feature as it was.
C20_MoveSetsBothFields ==
    [][last'.op = "handleDragEnd" =>
       (\A a \in ActiveIds, o \in DropTargets :
          MoveStep(a, o)
          => LET target == dropStatus(statuses, o)
             IN  /\ UNCHANGED statuses
                 /\ Len(features') = Len(features)
                 /\ \A k \in 1..Len(features) :
                       IF features[k].id = a
                       THEN /\ features'[k].status = target
                            /\ features'[k].statusId = target.id
                            /\ \E j \in 1..Len(statuses') : statuses'[j] = target
                            /\ [features'[k] EXCEPT !.status = features[k].status,
                                                    !.statusId = features[k].statusId]
                                  = features[k]
                       ELSE features'[k] = features[k])]_vars

C20_Witness ==
    /\ last.op = "handleDragEnd"
    /\ last.outcome = "set"
    /\ Len(features) = 2
    /\ features[1].status # Ingested[1].status
    /\ features[1].statusId = features[1].status.id
    /\ features[2] = Ingested[2]
    /\ features[2].status.id # features[1].status.id

\* the columns of a list other than those of one id, in their order
ColumnsBut(sts, statusId) ==
    LET Other(st) == st.id # statusId
    IN  SelectSeq(sts, Other)

\* C21: the fetch resolves and the ingestion runs only on the empty board of
\* mount; a step that changes the column list or the feature list is that
\* ingestion or one of handleDragEnd, addNewColumn and deleteColumn; and
\* every column of the list stays where it is through every step other than a
\* deleteColumn, which keeps in order every column whose id is not the one
\* deleted.
C21_IngestedOnce ==
    [][/\ last'.op \in {"fetch", "ingest"}
            => statuses = <<>> /\ features = <<>>
       /\ (statuses' # statuses \/ features' # features)
            => last'.op \in Mutations \cup {"ingest"}
       /\ last'.op \notin {"ingest", "deleteColumn"}
            => /\ Len(statuses') >= Len(statuses)
               /\ SubSeq(statuses', 1, Len(statuses)) = statuses
       /\ last'.op = "deleteColumn"
            => \A id \in DeleteIds :
                  deleteColumn(id)
                     => ColumnsBut(statuses', id) = ColumnsBut(statuses, id)]_vars

C21_Witness ==
    /\ last.op = "handleDragEnd"
    /\ last.outcome = "set"
    /\ kanbanDetails # Undefined
    /\ ~effectPending
    /\ Len(Ingested) >= 1
    /\ Len(statuses) = Len(kanbanDetails.statuses) + 1
    /\ statuses[Len(statuses)] \notin RawStatuses
    /\ \E k \in 1..Len(features) : features[k].status = statuses[Len(statuses)]

\* C22: a handleDragEnd whose card id is the id of no feature of the board,
\* dropped on the lane of a column of the board, leaves the feature list and
\* the column list as they were.
C22_UnknownCardUnchanged ==
    [][last'.op = "handleDragEnd" =>
       (\A a \in ActiveIds, o \in DropTargets :
          (/\ handleDragEnd(a, o)
           /\ \A k \in 1..Len(features) : features[k].id # a
           /\ o # Undefined
           /\ \E j \in 1..Len(statuses) : statuses[j].name = o.id)
          => UNCHANGED board)]_vars

C22_Witness ==
    /\ last.op = "handleDragEnd"
    /\ last.outcome = "set"
    /\ features # <<>>
    /\ \A k \in 1..Len(features) :
          /\ features[k].status # Undefined
          /\ features[k].status.id # features[k].statusId

====
